---- MODULE Spec2Model ----
(***************************************************************************)
(* A model of compare_icon_fonts (src/src/main.rs): the stop sampler       *)
(* (stops, Axis::stops), the constellation generator, the outline          *)
(* comparator (subpaths, equivalent_paths), the failure artifact writer    *)
(* (save_failure) and the driver (main).                                   *)
(*                                                                         *)
(* Three specifications share the module:                                  *)
(*   SpecPaths  equivalent_paths applied to every pair of bounded paths    *)
(*   SpecStops  Axis::stops applied to every bounded axis                  *)
(*   SpecMain   the driver, run on two fonts, then run once more on the    *)
(*              same two fonts                                             *)
(*                                                                         *)
(* The driver is modelled from the point where the two paths are given and *)
(* both files are read and parsed (main.rs 224-251 succeed); the external  *)
(* renderer draw_icon returns well-formed path descriptions.               *)
(***************************************************************************)
EXTENDS Integers, Sequences, FiniteSets, TLC

VARIABLES
    \* SpecPaths: the two svgs handed to equivalent_paths, and what it returned
    left_svg, right_svg, verdict, pc_p,
    \* SpecStops: the axis Axis::stops is called on, and what it returned
    axis, values, pc_s,
    \* SpecMain, the inputs: the two fonts, whether the two paths name the same
    \* file, the --filter argument, and what draw_icon has returned so far
    fonts, identical, filter, drawn,
    \* SpecMain, the process: where main is, what it has printed, its locals,
    \* and its exit status
    pc, output, errs, sum, left_locs, right_locs, test_locs, iter_order,
    test_icons, icon_i, loc_i, bad_locs, good_locs, exit,
    \* SpecMain, the world: the files under /tmp, the number of the run, and
    \* the ordinals each run has given to (icon, location) pairs
    files, run, numbered

vars_p == <<left_svg, right_svg, verdict, pc_p>>
vars_s == <<axis, values, pc_s>>
vars_in == <<fonts, identical, filter>>
vars_proc == <<pc, output, errs, sum, left_locs, right_locs, test_locs, iter_order,
               test_icons, icon_i, loc_i, bad_locs, good_locs, exit>>
vars_m == <<vars_in, drawn, vars_proc, files, run, numbered>>
vars == <<vars_p, vars_s, vars_m>>

----------------------------------------------------------------------------
(* Path descriptions.  A path description (the d attribute) is a sequence   *)
(* of commands; a command is its letter, the coordinates are left out:      *)
(* "M" a move, "L" a drawn segment, "Z" a close.                            *)

MaxLen == 5

Cmds == {"M", "L", "Z"}

\* the descriptions draw_icon can emit: empty, or starting with a move
Paths ==
    {p \in UNION {[1..n -> Cmds] : n \in 0..MaxLen} : Len(p) = 0 \/ p[1] = "M"}

Svg(path) == [preamble |-> "<path d=", path |-> path, suffix |-> "/></svg>"]

\* main.rs 136-143: the text up to and including `<path d="`, the
\* description, the rest
parse_path(svg) == <<svg.preamble, svg.path, svg.suffix>>

\* main.rs 118-127: the positions of the chars 'm' and 'M', ascending
RECURSIVE MoveIndicesFrom(_, _)
MoveIndicesFrom(path, i) ==
    IF i > Len(path) THEN <<>>
    ELSE IF path[i] = "M" THEN <<i>> \o MoveIndicesFrom(path, i + 1)
    ELSE MoveIndicesFrom(path, i + 1)

MoveIndices(path) == MoveIndicesFrom(path, 1)

\* slice::windows(2): the Len - 1 overlapping pairs, none when Len < 2
Windows2(s) == [i \in 1..(IF Len(s) < 2 THEN 0 ELSE Len(s) - 1) |-> <<s[i], s[i + 1]>>]

\* BezPath::from_svg (called at main.rs 131): one element per command, so
\* each parsed subpath starts with the MoveTo of its move command; a command
\* other than a move that follows a close is preceded by a MoveTo back to
\* the subpath's first point (SVG's implicit move)
RECURSIVE FromSvgLoop(_, _, _, _)
FromSvgLoop(s, i, els, implicit_moveto) ==
    IF i > Len(s) THEN els
    ELSE LET c == s[i]
             pre == IF c # "M" /\ implicit_moveto THEN Append(els, "MoveTo") ELSE els
         IN  CASE c = "M" -> FromSvgLoop(s, i + 1, Append(els, "MoveTo"), FALSE)
               [] c = "L" -> FromSvgLoop(s, i + 1, Append(pre, "LineTo"), FALSE)
               [] c = "Z" -> FromSvgLoop(s, i + 1, Append(pre, "ClosePath"), TRUE)

FromSvg(s) == FromSvgLoop(s, 1, <<>>, FALSE)

\* main.rs 117-134: one BezPath per window of two consecutive move positions,
\* parsed from the text between them
subpaths(path) ==
    LET w == Windows2(MoveIndices(path))
    IN  [i \in 1..Len(w) |-> FromSvg(SubSeq(path, w[i][1], w[i][2] - 1))]

\* slice::rotate_right(1): the last element comes first
RotateRight1(s) ==
    IF Len(s) = 0 THEN s
    ELSE <<s[Len(s)]>> \o SubSeq(s, 1, Len(s) - 1)

\* SubpathEquivalent with a slip: any rotation of the right side is accepted
RECURSIVE RotateRightN(_, _)
RotateRightN(s, n) == IF n = 0 THEN s ELSE RotateRightN(RotateRight1(s), n - 1)

SubpathEquivalentAnyRotation(left_subpath, right_subpath) ==
    \/ left_subpath = right_subpath
    \/ /\ Len(left_subpath) # 0
       /\ \E n \in 0..Len(right_subpath) : left_subpath = RotateRightN(right_subpath, n)

\* main.rs 159-172: the closure given to all()
SubpathEquivalent(left_subpath, right_subpath) ==
    IF left_subpath = right_subpath THEN TRUE
    ELSE IF Len(left_subpath) = 0 THEN FALSE
    ELSE left_subpath = RotateRight1(right_subpath)

\* equivalent_paths with a slip: the count test reads > where the code reads !=
equivalent_paths_gt(l_svg, r_svg) ==
    LET left_subpaths == subpaths(parse_path(l_svg)[2])
        right_subpaths == subpaths(parse_path(r_svg)[2])
        n == IF Len(left_subpaths) < Len(right_subpaths)
             THEN Len(left_subpaths) ELSE Len(right_subpaths)
    IN  IF Len(left_subpaths) > Len(right_subpaths) THEN FALSE
        ELSE \A i \in 1..n : SubpathEquivalent(left_subpaths[i], right_subpaths[i])

\* equivalent_paths with a slip: any() where the code reads all()
equivalent_paths_any(l_svg, r_svg) ==
    LET left_subpaths == subpaths(parse_path(l_svg)[2])
        right_subpaths == subpaths(parse_path(r_svg)[2])
    IN  IF Len(left_subpaths) # Len(right_subpaths) THEN FALSE
        ELSE \E i \in 1..Len(left_subpaths) :
                 SubpathEquivalent(left_subpaths[i], right_subpaths[i])

\* main.rs 145-173
equivalent_paths(l_svg, r_svg) ==
    LET left_subpaths == subpaths(parse_path(l_svg)[2])
        right_subpaths == subpaths(parse_path(r_svg)[2])
    IN  IF Len(left_subpaths) # Len(right_subpaths) THEN FALSE
        ELSE \A i \in 1..Len(left_subpaths) :
                 SubpathEquivalent(left_subpaths[i], right_subpaths[i])

----------------------------------------------------------------------------
(* SpecPaths: equivalent_paths on every pair of descriptions.               *)

InitPaths ==
    /\ left_svg \in {Svg(p) : p \in Paths}
    /\ right_svg \in {Svg(p) : p \in Paths}
    /\ verdict = FALSE
    /\ pc_p = "call"

\* the call of equivalent_paths
Compare ==
    /\ pc_p = "call"
    /\ verdict' = equivalent_paths(left_svg, right_svg)
    /\ pc_p' = "returned"
    /\ UNCHANGED <<left_svg, right_svg>>


----------------------------------------------------------------------------
(* Properties of equivalent_paths.                                          *)

NumMoves(path) == Len(MoveIndices(path))

\* the move-delimited subpaths of a description, the last one included: each
\* runs from a move up to the next move or the end of the description
MoveDelimited(path) ==
    LET idx == MoveIndices(path)
    IN  [i \in 1..Len(idx) |->
            FromSvg(SubSeq(path, idx[i],
                           IF i < Len(idx) THEN idx[i + 1] - 1 ELSE Len(path)))]

OneRotation(a, b) == a = RotateRight1(b) \/ b = RotateRight1(a)

LeftPath == parse_path(left_svg)[2]
RightPath == parse_path(right_svg)[2]

MinLen(s, t) == IF Len(s) < Len(t) THEN Len(s) ELSE Len(t)

\* C1: with the same number of move-delimited subpaths on both sides, a pair
\* at any index (the last, or the only one, included) that is neither
\* identical nor a one-position rotation makes the verdict false.
C1_EverySubpathTakesPart ==
    pc_p = "returned" =>
        LET l == MoveDelimited(LeftPath)
            r == MoveDelimited(RightPath)
        IN  (/\ Len(l) = Len(r)
             /\ \E i \in 1..Len(l) : l[i] # r[i] /\ ~OneRotation(l[i], r[i]))
            => verdict = FALSE

\* C2: a different number of move commands makes the verdict false.
C2_DifferentMoveCountsDiffer ==
    (pc_p = "returned" /\ NumMoves(LeftPath) # NumMoves(RightPath))
        => verdict = FALSE

\* C3: a compared pair whose right side is the left side rotated by k
\* positions, 2 <= k < length, to the right or to the left, and is not the
\* left side itself, makes the verdict false.
RotatedByTwoOrMore(l, r) ==
    /\ l # r
    /\ Len(l) = Len(r)
    /\ \E k \in 2..(Len(l) - 1) : r = RotateRightN(l, k) \/ l = RotateRightN(r, k)

C3_RotationLimitedToOne ==
    pc_p = "returned" =>
        LET l == subpaths(LeftPath)
            r == subpaths(RightPath)
        IN  (\E i \in 1..MinLen(l, r) : RotatedByTwoOrMore(l[i], r[i]))
            => verdict = FALSE

C3_Witness ==
    /\ pc_p = "returned"
    /\ Len(subpaths(LeftPath)) = Len(subpaths(RightPath))
    /\ \E i \in 1..Len(subpaths(LeftPath)) :
           RotatedByTwoOrMore(subpaths(LeftPath)[i], subpaths(RightPath)[i])
    /\ verdict = FALSE

\* C10: the verdict is the same with the two sides swapped.
C10_VerdictSymmetric ==
    pc_p = "returned" => verdict = equivalent_paths(right_svg, left_svg)

\* two outlines with the same number of compared subpaths, one pair of which
\* differs, so that the rotation of the right side decides
C10_Witness ==
    /\ pc_p = "returned"
    /\ Len(subpaths(LeftPath)) = Len(subpaths(RightPath))
    /\ \E i \in 1..Len(subpaths(LeftPath)) :
           /\ subpaths(LeftPath)[i] # subpaths(RightPath)[i]
           /\ Len(subpaths(LeftPath)[i]) = Len(subpaths(RightPath)[i])
    /\ verdict = equivalent_paths(right_svg, left_svg)

----------------------------------------------------------------------------
(* The stop sampler.                                                        *)

MaxMult == 3

KnownTags == {"FILL", "GRAD", "ROND", "opsz", "wght"}
Tags == KnownTags \cup {"slnt"}

\* main.rs 76-80: the step of each recognised tag
StepOf(tag) ==
    CASE tag = "FILL" -> 1
      [] tag = "GRAD" -> 25
      [] tag = "ROND" -> 50
      [] tag = "opsz" -> 16
      [] tag = "wght" -> 200

\* the coordinates an axis is drawn from: the multiples of the tag's step and
\* the points half way between them (1 apart for a tag with no step)
CoordsOf(tag) ==
    LET unit == IF tag \in KnownTags THEN StepOf(tag) ELSE 1
    IN  {unit * k + h * (unit \div 2) : k \in (-1)..MaxMult, h \in 0..1}

\* main.rs 47-53, with the invariant of an fvar axis record:
\* min <= default <= max
AxesOf(tag) ==
    {a \in [tag : {tag}, min : CoordsOf(tag), default : CoordsOf(tag),
            max : CoordsOf(tag)] : a.min <= a.default /\ a.default <= a.max}

Axes == UNION {AxesOf(t) : t \in Tags}

\* main.rs 58-61: the while loop.  The values come from 16.16 fixed point
\* numbers (main.rs 39-41), so curr + step stays far inside i32
RECURSIVE StopsLoop(_, _, _, _)
StopsLoop(curr, max, step, acc) ==
    IF curr <= max THEN StopsLoop(curr + step, max, step, Append(acc, curr))
    ELSE acc

\* stops with a slip: the default is not pushed
stops_without_default(min, default, max, step) ==
    Append(StopsLoop(min, max, step, <<>>), max)

\* main.rs 55-65
stops(min, default, max, step) ==
    Append(Append(StopsLoop(min, max, step, <<>>), default), max)

\* Vec::sort (main.rs 83), as an insertion sort
RECURSIVE InsertSorted(_, _)
InsertSorted(s, v) ==
    IF Len(s) = 0 THEN <<v>>
    ELSE IF v < s[Len(s)] THEN Append(InsertSorted(SubSeq(s, 1, Len(s) - 1), v), s[Len(s)])
    ELSE Append(s, v)

RECURSIVE SortFrom(_, _, _)
SortFrom(s, i, acc) ==
    IF i > Len(s) THEN acc ELSE SortFrom(s, i + 1, InsertSorted(acc, s[i]))

Sort(s) == SortFrom(s, 1, <<>>)

\* Vec::dedup (main.rs 84): of consecutive equal elements the first is kept
RECURSIVE DedupFrom(_, _, _)
DedupFrom(s, i, acc) ==
    IF i > Len(s) THEN acc
    ELSE IF Len(acc) > 0 /\ acc[Len(acc)] = s[i] THEN DedupFrom(s, i + 1, acc)
    ELSE DedupFrom(s, i + 1, Append(acc, s[i]))

Dedup(s) == DedupFrom(s, 1, <<>>)

\* Axis_stops with a fallback in place of the panic: a tag with no step gets
\* {min, default, max}
Axis_stops_permissive(a) ==
    LET raw == IF a.tag \in KnownTags
               THEN stops(a.min, a.default, a.max, StepOf(a.tag))
               ELSE <<a.min, a.default, a.max>>
        vs == Dedup(Sort(raw))
    IN  [panic |-> FALSE, stops |-> [i \in 1..Len(vs) |-> <<a.tag, vs[i]>>]]

\* main.rs 67-87, Axis::stops: the (tag, value) pairs, or the panic of the
\* match's last arm
Axis_stops(a) ==
    IF a.tag \in KnownTags
    THEN LET vs == Dedup(Sort(stops(a.min, a.default, a.max, StepOf(a.tag))))
         IN  [panic |-> FALSE, stops |-> [i \in 1..Len(vs) |-> <<a.tag, vs[i]>>]]
    ELSE [panic |-> TRUE, stops |-> <<>>]

(* SpecStops: Axis::stops on every axis.                                    *)

InitStops ==
    /\ axis \in Axes
    /\ values = <<>>
    /\ pc_s = "call"

StopsReturn ==
    /\ pc_s = "call"
    /\ ~Axis_stops(axis).panic
    /\ values' = Axis_stops(axis).stops
    /\ pc_s' = "returned"
    /\ UNCHANGED axis

StopsPanic ==
    /\ pc_s = "call"
    /\ Axis_stops(axis).panic
    /\ pc_s' = "panicked"
    /\ UNCHANGED <<axis, values>>

\* C4: for a stepped tag the result is strictly ascending and holds exactly
\* the values min + k*step up to max, the default and the max, each paired
\* with the axis's tag; min = max gives a single value.
SteppedTags == {<<"FILL", 1>>, <<"GRAD", 25>>, <<"ROND", 50>>, <<"opsz", 16>>, <<"wght", 200>>}

C4_SteppedStops ==
    \A ts \in SteppedTags :
        (pc_s = "returned" /\ axis.tag = ts[1]) =>
            /\ \A i \in 1..Len(values) : values[i][1] = axis.tag
            /\ \A i \in 1..(Len(values) - 1) : values[i][2] < values[i + 1][2]
            /\ {values[i][2] : i \in 1..Len(values)} =
                   {v \in axis.min..axis.max : (v - axis.min) % ts[2] = 0}
                       \cup {axis.default, axis.max}
            /\ axis.min = axis.max => Len(values) = 1

C4_Witness ==
    /\ pc_s = "returned"
    /\ axis = [tag |-> "wght", min |-> 100, default |-> 400, max |-> 700]
    /\ values = <<<<"wght", 100>>, <<"wght", 300>>, <<"wght", 400>>,
                  <<"wght", 500>>, <<"wght", 700>>>>

----------------------------------------------------------------------------
(* The fonts the driver is run on.                                          *)

\* the icon names, in the order of str's Ord
IconNames == <<"home", "star">>

NameRank(n) == CHOOSE i \in 1..Len(IconNames) : IconNames[i] = n

FILL_0_0_1 == [tag |-> "FILL", min |-> 0, default |-> 0, max |-> 1]
FILL_0_1_1 == [tag |-> "FILL", min |-> 0, default |-> 1, max |-> 1]
GRAD_0_0_0 == [tag |-> "GRAD", min |-> 0, default |-> 0, max |-> 0]
slnt_0_0_1 == [tag |-> "slnt", min |-> 0, default |-> 0, max |-> 1]

\* the fvar tables of the fonts
AxisLists == {<<FILL_0_0_1>>, <<FILL_0_1_1>>, <<FILL_0_0_1, GRAD_0_0_0>>, <<slnt_0_0_1>>}

\* a font: the names of its icons and its axes
Fonts == [names : SUBSET {IconNames[i] : i \in 1..Len(IconNames)}, axes : AxisLists]

NoFilter == "none"
Filters == {NoFilter, "st"}

\* the outlines draw_icon returns: one contour, and the same followed by a
\* second contour
SamplePaths == {<<"M", "L", "Z">>, <<"M", "L", "Z", "M", "L", "L", "Z">>}

\* Regex::find(name).is_some() (main.rs 264)
Matches(pattern, name) == pattern = "st" /\ name = "star"

\* font_ref.icons() (main.rs 256-258): an icon carries its names and its glyph
\* id, which is its place in the font's glyph order
RawIcons(font) ==
    {[names |-> <<n>>, gid |-> Cardinality({m \in font.names : NameRank(m) <= NameRank(n)})] :
        n \in font.names}

\* main.rs 255-275: the filter, then the glyph id set to 0
IconSet(font, f) ==
    {[names |-> i.names, gid |-> 0] :
        i \in {i \in RawIcons(font) :
                  f = NoFilter \/ \E k \in 1..Len(i.names) : Matches(f, i.names[k])}}

\* sort_by_cached_key(|i| i.names.join(",")) (main.rs 27, 294) of a set of
\* icons
RECURSIVE SortIcons(_)
SortIcons(set) ==
    IF set = {} THEN <<>>
    ELSE LET first == CHOOSE i \in set :
                          \A j \in set : NameRank(i.names[1]) <= NameRank(j.names[1])
         IN  <<first>> \o SortIcons(set \ {first})

\* main.rs 14-31, print_only: the lines printed and the number returned
print_only(self, desc, other) ==
    LET only == SortIcons(self \ other)
    IN  [lines |-> [k \in 1..Len(only) |-> <<desc, only[k].names[1]>>],
         count |-> Len(only)]

----------------------------------------------------------------------------
(* The constellation generator.                                             *)

\* Axis::normalize, called by font_axes.location (main.rs 113): a user
\* coordinate as a normalized one, in units of 1/16384
Normalize(a, v) ==
    LET c == IF v < a.min THEN a.min ELSE IF v > a.max THEN a.max ELSE v
    IN  IF c < a.default THEN -(((a.default - c) * 16384) \div (a.default - a.min))
        ELSE IF c > a.default THEN ((c - a.default) * 16384) \div (a.max - a.default)
        ELSE 0

\* font_axes.location(&l) (main.rs 113): one normalized coordinate per axis
\* of the font, in the font's order, 0 for an axis l does not name
Location(font_axes, l) ==
    [k \in 1..Len(font_axes) |->
        IF \E j \in 1..Len(l) : l[j][1] = font_axes[k].tag
        THEN LET j == CHOOSE j \in 1..Len(l) :
                          /\ l[j][1] = font_axes[k].tag
                          /\ \A j2 \in (j + 1)..Len(l) : l[j2][1] # font_axes[k].tag
             IN  Normalize(font_axes[k], l[j][2])
        ELSE 0]

\* main.rs 95-107: the while loop, popping the stop lists from the back
RECURSIVE ConstellationLoop(_, _)
ConstellationLoop(stop_lists, raw_locations) ==
    IF Len(stop_lists) = 0 THEN raw_locations
    ELSE LET stop_list == stop_lists[Len(stop_lists)]
             new_locations ==
                 [k \in 1..(Len(raw_locations) * Len(stop_list)) |->
                     Append(raw_locations[((k - 1) \div Len(stop_list)) + 1],
                            stop_list[((k - 1) % Len(stop_list)) + 1])]
         IN  ConstellationLoop(SubSeq(stop_lists, 1, Len(stop_lists) - 1), new_locations)

\* main.rs 89-115: the set of locations, or the panic of an Axis::stops
constellation(font) ==
    LET outcomes == [k \in 1..Len(font.axes) |-> Axis_stops(font.axes[k])]
    IN  IF \E k \in 1..Len(outcomes) : outcomes[k].panic
        THEN [panic |-> TRUE, locs |-> {}]
        ELSE LET raw_locations ==
                     ConstellationLoop([k \in 1..Len(outcomes) |-> outcomes[k].stops],
                                       <<<<>>>>)
             IN  [panic |-> FALSE,
                  locs |-> {Location(font.axes, raw_locations[k]) :
                                k \in 1..Len(raw_locations)}]

----------------------------------------------------------------------------
(* The failure artifact writer.                                             *)

\* main.rs 177-195: the reformatted svg, one command per line; the commands
\* are the windows of two consecutive command positions, so the text from
\* the last command on is not among them
FormatSvg(content) ==
    LET svg_path == parse_path(content)[2]
        w == Windows2([k \in 1..Len(svg_path) |-> k])
    IN  [preamble |-> parse_path(content)[1],
         lines |-> [k \in 1..Len(w) |-> SubSeq(svg_path, w[k][1], w[k][2] - 1)],
         suffix |-> parse_path(content)[3]]

\* main.rs 201-207: the elements of each subpath after its first MoveTo
SegmentsDump(content) ==
    LET subs == subpaths(parse_path(content)[2])
    IN  [k \in 1..Len(subs) |-> SubSeq(subs[k], 2, Len(subs[k]))]

\* main.rs 175-209, save_failure: the two files it writes, by name
save_failure(fs, icon_name, side, content, nth) ==
    [f \in DOMAIN fs \cup {<<icon_name, side, nth, "svg">>,
                           <<icon_name, side, nth, "segments">>} |->
        IF f = <<icon_name, side, nth, "svg">> THEN FormatSvg(content)
        ELSE IF f = <<icon_name, side, nth, "segments">> THEN SegmentsDump(content)
        ELSE fs[f]]

----------------------------------------------------------------------------
(* SpecMain: the driver.                                                    *)

NoFiles == [f \in {} |-> <<>>]

\* the sequences that list each element of a set once: the orders in which
\* a HashSet can be iterated
Orders(set) ==
    {o \in [1..Cardinality(set) -> set] : \A x \in set : \E k \in DOMAIN o : o[k] = x}

\* ReconcileErrs with a location set mismatch counted as one defect
ReconcileErrsCountingLocations ==
    print_only(IconSet(fonts.left, filter), "only_left", IconSet(fonts.right, filter)).count
        + print_only(IconSet(fonts.right, filter), "only_right", IconSet(fonts.left, filter)).count
        + (IF constellation(fonts.left).locs # constellation(fonts.right).locs THEN 1 ELSE 0)

\* main.rs 302-305: the defects of the set reconciliation
ReconcileErrs ==
    print_only(IconSet(fonts.left, filter), "only_left", IconSet(fonts.right, filter)).count
        + print_only(IconSet(fonts.right, filter), "only_right", IconSet(fonts.left, filter)).count

\* IconErrs with a slip: a failing icon counts once
IconErrsOnePerIcon(bad) == IF Len(bad) # 0 THEN 1 ELSE 0

\* main.rs 348: what the closure returns for one icon
IconErrs(bad) == Len(bad)

\* main.rs 352-357
ExitCode(e) == IF e = 0 THEN "SUCCESS" ELSE "FAILURE"

ProcessStart ==
    /\ pc = "start"
    /\ output = <<>>
    /\ errs = 0
    /\ sum = 0
    /\ left_locs = {}
    /\ right_locs = {}
    /\ test_locs = {}
    /\ iter_order = <<>>
    /\ test_icons = <<>>
    /\ icon_i = 1
    /\ loc_i = 1
    /\ bad_locs = <<>>
    /\ good_locs = <<>>
    /\ exit = "none"

\* main.rs 279: a constellation panics in Axis::stops; nothing was printed
SetupPanic ==
    /\ pc = "start"
    /\ constellation(fonts.left).panic \/ constellation(fonts.right).panic
    /\ pc' = "panicked"
    /\ exit' = "PANIC"
    /\ UNCHANGED <<vars_in, drawn, output, errs, sum, left_locs, right_locs, test_locs,
                   iter_order, test_icons, icon_i, loc_i, bad_locs, good_locs,
                   files, run, numbered>>

\* main.rs 224-305: from the arguments to the two print_only calls.  The
\* order in which test_locs is iterated is the HashSet's, one of Orders
Setup ==
    /\ pc = "start"
    /\ ~constellation(fonts.left).panic
    /\ ~constellation(fonts.right).panic
    /\ LET left_icons == IconSet(fonts.left, filter)
           right_icons == IconSet(fonts.right, filter)
           l_locs == constellation(fonts.left).locs
           r_locs == constellation(fonts.right).locs
           icons == SortIcons(left_icons \cap right_icons)
       IN  /\ left_locs' = l_locs
           /\ right_locs' = r_locs
           /\ test_locs' = l_locs \cap r_locs
           /\ iter_order' \in Orders(l_locs \cap r_locs)
           /\ test_icons' = icons
           /\ output' =
                  (IF l_locs # r_locs THEN <<<<"Inconsistent location sets">>>> ELSE <<>>)
                  \o <<<<"Testing", Len(icons), Cardinality(l_locs \cap r_locs)>>>>
                  \o print_only(left_icons, "only_left", right_icons).lines
                  \o print_only(right_icons, "only_right", left_icons).lines
           /\ errs' = ReconcileErrs
    /\ pc' = "icon"
    /\ UNCHANGED <<vars_in, drawn, sum, icon_i, loc_i, bad_locs, good_locs, exit,
                   files, run, numbered>>

\* main.rs 312-337: one turn of the loop over test_locs.  draw_icon is a
\* function of the font file, the icon and the location: what it returned
\* once it returns again, and the same file gives the same outline
CompareAt ==
    /\ pc = "icon"
    /\ icon_i <= Len(test_icons)
    /\ loc_i <= Len(iter_order)
    /\ LET name == test_icons[icon_i].names[1]
           loc == iter_order[loc_i]
           l_key == <<"left", name, loc>>
           r_key == <<"right", name, loc>>
       IN  \E l_path \in SamplePaths, r_path \in SamplePaths :
               /\ l_key \in DOMAIN drawn => drawn[l_key] = Svg(l_path)
               /\ r_key \in DOMAIN drawn => drawn[r_key] = Svg(r_path)
               /\ identical => l_path = r_path
               /\ drawn' = [k \in DOMAIN drawn \cup {l_key, r_key} |->
                               IF k = l_key THEN Svg(l_path)
                               ELSE IF k = r_key THEN Svg(r_path)
                               ELSE drawn[k]]
               /\ IF ~equivalent_paths(Svg(l_path), Svg(r_path))
                  THEN /\ files' = save_failure(
                                       save_failure(files, name, "left", Svg(l_path),
                                                    Len(bad_locs)),
                                       name, "right", Svg(r_path), Len(bad_locs))
                       /\ numbered' = numbered \cup {<<run, name, loc, Len(bad_locs)>>}
                       /\ bad_locs' = Append(bad_locs, loc)
                       /\ UNCHANGED good_locs
                  ELSE /\ good_locs' = Append(good_locs, loc)
                       /\ UNCHANGED <<files, numbered, bad_locs>>
    /\ loc_i' = loc_i + 1
    /\ UNCHANGED <<vars_in, pc, output, errs, sum, left_locs, right_locs, test_locs,
                   iter_order, test_icons, icon_i, exit, run>>

\* main.rs 338-348: the end of the closure for one icon
FinishIcon ==
    /\ pc = "icon"
    /\ icon_i <= Len(test_icons)
    /\ loc_i > Len(iter_order)
    /\ LET name == test_icons[icon_i].names[1]
       IN  output' = Append(output,
                            IF Len(bad_locs) # 0
                            THEN <<"fails", name, Len(bad_locs), Cardinality(test_locs)>>
                            ELSE <<"passes", name>>)
    /\ sum' = sum + IconErrs(bad_locs)
    /\ icon_i' = icon_i + 1
    /\ loc_i' = 1
    /\ bad_locs' = <<>>
    /\ good_locs' = <<>>
    /\ UNCHANGED <<vars_in, drawn, pc, errs, left_locs, right_locs, test_locs,
                   iter_order, test_icons, exit, files, run, numbered>>

\* main.rs 307, 350-357: the sum is added and the status decided
Report ==
    /\ pc = "icon"
    /\ icon_i > Len(test_icons)
    /\ errs' = errs + sum
    /\ exit' = ExitCode(errs + sum)
    /\ output' = IF ExitCode(errs + sum) = "SUCCESS" THEN output
                 ELSE Append(output, <<"Eeek", errs + sum>>)
    /\ pc' = "done"
    /\ UNCHANGED <<vars_in, drawn, sum, left_locs, right_locs, test_locs, iter_order,
                   test_icons, icon_i, loc_i, bad_locs, good_locs, files, run, numbered>>

\* the program is run once more on the same two files; /tmp is as the
\* first run left it
Rerun ==
    /\ pc = "done"
    /\ run = 1
    /\ run' = 2
    /\ pc' = "start"
    /\ output' = <<>>
    /\ errs' = 0
    /\ sum' = 0
    /\ left_locs' = {}
    /\ right_locs' = {}
    /\ test_locs' = {}
    /\ iter_order' = <<>>
    /\ test_icons' = <<>>
    /\ icon_i' = 1
    /\ loc_i' = 1
    /\ bad_locs' = <<>>
    /\ good_locs' = <<>>
    /\ exit' = "none"
    /\ UNCHANGED <<vars_in, drawn, files, numbered>>

----------------------------------------------------------------------------
(* Properties of the driver.                                                *)

FilteredNames(font) ==
    {n \in font.names : filter = NoFilter \/ Matches(filter, n)}

OnlyLeft == FilteredNames(fonts.left) \ FilteredNames(fonts.right)
OnlyRight == FilteredNames(fonts.right) \ FilteredNames(fonts.left)
CommonNames == FilteredNames(fonts.left) \cap FilteredNames(fonts.right)

\* the (icon, common location) pairs whose two outlines are judged
\* non-equivalent
JudgedBad ==
    {nl \in CommonNames \X (left_locs \cap right_locs) :
        /\ <<"left", nl[1], nl[2]>> \in DOMAIN drawn
        /\ <<"right", nl[1], nl[2]>> \in DOMAIN drawn
        /\ ~equivalent_paths(drawn[<<"left", nl[1], nl[2]>>],
                             drawn[<<"right", nl[1], nl[2]>>])}

DefectTotal == Cardinality(OnlyLeft) + Cardinality(OnlyRight) + Cardinality(JudgedBad)

Printed(kind) == \E k \in 1..Len(output) : output[k][1] = kind

UnknownAxis(font) == \E k \in 1..Len(font.axes) : font.axes[k].tag \notin KnownTags

C6_ExitStatusIffNoDefects ==
    pc = "done" =>
        /\ errs = DefectTotal
        /\ exit = "SUCCESS" <=> DefectTotal = 0
        /\ exit \in {"SUCCESS", "FAILURE"}
        /\ Printed("Eeek") <=> exit = "FAILURE"
        /\ exit = "FAILURE" => output[Len(output)] = <<"Eeek", DefectTotal>>

C6_Witness ==
    /\ pc = "done"
    /\ OnlyLeft # {}
    /\ Cardinality(JudgedBad) >= 2
    /\ exit = "FAILURE"
    /\ output[Len(output)] = <<"Eeek", DefectTotal>>

\* C7, as amended: a location set mismatch is reported and not counted: the
\* run prints the inconsistency first, goes on over the common locations to
\* its report, and the total is that of the icon and outline defects alone,
\* so the status is success when there are none.
C7_LocationMismatchReportedNotCounted ==
    (pc = "done" /\ left_locs # right_locs) =>
        /\ output[1] = <<"Inconsistent location sets">>
        /\ test_locs = left_locs \cap right_locs
        /\ errs = DefectTotal
        /\ DefectTotal = 0 => exit = "SUCCESS"

C7_Witness ==
    /\ pc = "done"
    /\ left_locs # right_locs
    /\ test_locs # {}
    /\ Len(test_icons) > 0
    /\ exit = "SUCCESS"

\* C7, as claimed: a location set mismatch contributes to the total defect
\* count, so the status of a run that has one is failure.
C7_LocationMismatchCounted ==
    (pc = "done" /\ left_locs # right_locs) => exit = "FAILURE"

\* C8: two runs on the same two fonts never give different ordinals to the
\* same failing (icon, location) pair.
C8_OrdinalsReproducible ==
    \A a \in numbered, b \in numbered :
        (a[2] = b[2] /\ a[3] = b[3]) => a[4] = b[4]

----------------------------------------------------------------------------
(* Specifications.                                                          *)

\* each specification holds the variables of the other two still

IdlePaths ==
    /\ left_svg = Svg(<<>>)
    /\ right_svg = Svg(<<>>)
    /\ verdict = FALSE
    /\ pc_p = "idle"

IdleStops ==
    /\ axis = GRAD_0_0_0
    /\ values = <<>>
    /\ pc_s = "idle"

IdleMain ==
    /\ fonts = [left |-> [names |-> {}, axes |-> <<GRAD_0_0_0>>],
                right |-> [names |-> {}, axes |-> <<GRAD_0_0_0>>]]
    /\ identical = TRUE
    /\ filter = NoFilter
    /\ drawn = NoFiles
    /\ pc = "idle"
    /\ output = <<>>
    /\ errs = 0
    /\ sum = 0
    /\ left_locs = {}
    /\ right_locs = {}
    /\ test_locs = {}
    /\ iter_order = <<>>
    /\ test_icons = <<>>
    /\ icon_i = 1
    /\ loc_i = 1
    /\ bad_locs = <<>>
    /\ good_locs = <<>>
    /\ exit = "none"
    /\ files = NoFiles
    /\ run = 1
    /\ numbered = {}

InitSpecPaths == InitPaths /\ IdleStops /\ IdleMain

NextPaths == Compare /\ UNCHANGED <<vars_s, vars_m>>

SpecPaths == InitSpecPaths /\ [][NextPaths]_vars

InitSpecStops == InitStops /\ IdlePaths /\ IdleMain

NextStops ==
    \/ StopsReturn /\ UNCHANGED <<vars_p, vars_m>>
    \/ StopsPanic /\ UNCHANGED <<vars_p, vars_m>>

SpecStops == InitSpecStops /\ [][NextStops]_vars

\* the two font files: any two fonts, or the same file twice
InitMain ==
    /\ fonts \in [left : Fonts, right : Fonts]
    /\ identical \in BOOLEAN
    /\ identical => fonts.left = fonts.right
    /\ filter \in Filters
    /\ drawn = NoFiles
    /\ files = NoFiles
    /\ run = 1
    /\ numbered = {}
    /\ ProcessStart

InitSpecMain == InitMain /\ IdlePaths /\ IdleStops

NextMain ==
    \/ SetupPanic /\ UNCHANGED <<vars_p, vars_s>>
    \/ Setup /\ UNCHANGED <<vars_p, vars_s>>
    \/ CompareAt /\ UNCHANGED <<vars_p, vars_s>>
    \/ FinishIcon /\ UNCHANGED <<vars_p, vars_s>>
    \/ Report /\ UNCHANGED <<vars_p, vars_s>>
    \/ Rerun /\ UNCHANGED <<vars_p, vars_s>>

SpecMain == InitSpecMain /\ [][NextMain]_vars

====
